---- MODULE Spec2Model ----
(***************************************************************************)
(* Model of codesys-client: the NVL (network variable list) UDP protocol   *)
(* engine.  Receiver (src/src/codesys-client-receiver.ts) reassembles      *)
(* fragments per list ID and calls the registered handlers; Sender         *)
(* (src/src/codesys-client-sender.ts) splits a message into packets of at  *)
(* most 256 payload bytes and transmits them one by one.                   *)
(*                                                                         *)
(* Byte buffers are sequences of 0..255.  Buffer positions of the source   *)
(* are 0-based; sequences here are 1-based, so source position p is        *)
(* element p + 1.                                                          *)
(***************************************************************************)
EXTENDS Integers, Sequences, FiniteSets, TLC

VARIABLES
  \* ---- Receiver instance ----
  handlers,        \* Receiver.handlers: sequence of Listener objects
  packetBuffer,    \* Receiver.packetBuffer: list ID -> PacketBufferEntry or NoEntry
  lastCalls,       \* callbacks invoked by the latest receiver operation
  lastOutcome,     \* list ID and branch of the latest datagram (kind "none": no datagram)
  uncaught,        \* an exception escaped the socket's 'message' listener
  \* ---- Sender instance and its send() call ----
  counterNumber,   \* Sender.counterNumber: next free counter number
  sendCalls,       \* number of send() calls made so far
  usedCounters,    \* counterNo of every send() call that allocated one, in call order
  sendPc,          \* where the send() call in flight is waiting
  rawData,         \* send(): rawData, the converted message
  packets,         \* send(): packets
  client,          \* send(): the UDP socket of the call
  promise,         \* state of the promise send() returned
  sendArgs,        \* arguments of the latest send() call
  sendFailed,      \* a client.send() callback of this call reported an error
  thrown,          \* an exception was thrown inside send()'s async executor
  transmitted,     \* datagrams handed to client.send(), in call order
  sendsCompleted,  \* client.send() callbacks that reported success
  delaysElapsed,   \* inter-packet timers that have fired
  \* ---- network between the two ----
  delivered,       \* how many transmitted datagrams have reached the receiver
  \* ---- Receiver instance: socket, listen() and close() ----
  socket,          \* Receiver.socket: "none" (undefined) or the state of the dgram socket
  closeListeners,  \* close() calls whose callback is a 'close' listener of the socket
  closePromises,   \* state of the promise of every close() call, in call order
  handlersAtClose, \* handlers registered when the close() call now waiting for
                   \* the socket's 'close' event was made; -1 when none is waiting
  listenPromise,   \* state of the promise of the listen() call that created the socket
  lastListen,      \* what the latest listen() call did at once
  \* ---- handlers removed from inside a callback ----
  removedBy,       \* latest delivery: the call whose callback removed a handler, and which
  \* ---- datagrams of one logical message arriving repeatedly ----
  run,             \* counter of the datagrams arriving, and the deliveries made of it
  \* ---- Sender instance with several send() calls in flight ----
  inFlight,        \* the send() calls in flight, in call order
  \* ---- datagrams of one logical message arriving in any order ----
  arrival,         \* the message arriving: counter, payload sizes, the subIndex
                   \* values in order of arrival, and the deliveries made of it
  \* ---- header codec applied to one header ----
  codec            \* the header, the bytes createPacketHeader wrote for it and
                   \* what parseReceivedPacketHeader read from them

rvars == <<handlers, packetBuffer, lastCalls, lastOutcome, uncaught>>
svars == <<counterNumber, sendCalls, usedCounters, sendPc, rawData, packets, client,
           promise, sendArgs, sendFailed, thrown, transmitted, sendsCompleted,
           delaysElapsed>>
vars == <<handlers, packetBuffer, lastCalls, lastOutcome, uncaught,
          counterNumber, sendCalls, usedCounters, sendPc, rawData, packets, client,
          promise, sendArgs, sendFailed, thrown, transmitted, sendsCompleted,
          delaysElapsed, delivered,
          socket, closeListeners, closePromises, handlersAtClose, listenPromise,
          lastListen,
          removedBy, run, inFlight, arrival, codec>>
lvars == <<socket, closeListeners, closePromises, handlersAtClose, listenPromise,
           lastListen>>
cvars == <<inFlight>>
avars == <<arrival>>
hvars == <<codec>>
xvars == <<lvars, removedBy, run, cvars, avars, hvars>>

----------------------------------------------------------------------------
(* Bounds of the model *)

MaxHandlers == 2      \* handlers registered at the same time
MaxSubIndex == 3      \* largest subIndex of a datagram the network delivers

(* Program constants *)

HeaderLength == 20    \* bytes of the packet header
MaxPayload == 256     \* payload bytes a packet may hold before a new one is opened
UInt16Limit == 65535  \* the counter is reset when it has reached this value

----------------------------------------------------------------------------
(* Buffer primitives (Node.js Buffer as used by the source) *)

Min(a, b) == IF a < b THEN a ELSE b

\* Buffer.slice(from, to): 0-based, end exclusive, clamped to the buffer
Slice(data, from, to) == SubSeq(data, Min(from, Len(data)) + 1, Min(to, Len(data)))

\* Buffer.writeUInt16LE / writeUInt32LE / writeUInt8 as the bytes written
WriteUInt8(v) == <<v % 256>>
WriteUInt16LE(v) == <<v % 256, (v \div 256) % 256>>
WriteUInt32LE(v) ==
  <<v % 256, (v \div 256) % 256, (v \div 65536) % 256, (v \div 16777216) % 256>>

\* Buffer.readUIntXX(pos) throws a RangeError unless pos + width <= length
CanRead(data, pos, width) == pos + width <= Len(data)
ReadUInt8(data, pos) == data[pos + 1]
ReadUInt16LE(data, pos) == data[pos + 1] + 256 * data[pos + 2]
ReadUInt32LE(data, pos) ==
  data[pos + 1] + 256 * data[pos + 2] + 65536 * data[pos + 3] + 16777216 * data[pos + 4]

----------------------------------------------------------------------------
(* Header codec *)

\* identity bytes the sender writes
Identity == <<0, 45, 83, 51>>

\* variant: index and subIndex are written in the other order
createPacketHeader_subIndexFirst(header) ==
  header.identity
    \o WriteUInt32LE(header.type)
    \o WriteUInt16LE(header.subIndex)
    \o WriteUInt16LE(header.index)
    \o WriteUInt16LE(header.variableCount)
    \o WriteUInt16LE(header.packetLength)
    \o WriteUInt16LE(header.counter)
    \o WriteUInt8(header.flags)
    \o WriteUInt8(header.checksum)

\* Sender.createPacketHeader: 20 bytes, fields written one after the other
createPacketHeader(header) ==
  header.identity
    \o WriteUInt32LE(header.type)
    \o WriteUInt16LE(header.index)
    \o WriteUInt16LE(header.subIndex)
    \o WriteUInt16LE(header.variableCount)
    \o WriteUInt16LE(header.packetLength)
    \o WriteUInt16LE(header.counter)
    \o WriteUInt8(header.flags)
    \o WriteUInt8(header.checksum)

\* Receiver.parseReceivedPacketHeader throws when one of its reads is out of range
parseHeaderThrows(data) ==
  ~ ( /\ CanRead(data, 4, 4)
      /\ CanRead(data, 8, 2)
      /\ CanRead(data, 10, 2)
      /\ CanRead(data, 12, 2)
      /\ CanRead(data, 14, 2)
      /\ CanRead(data, 16, 2)
      /\ CanRead(data, 18, 1)
      /\ CanRead(data, 19, 1) )

\* variant: the counter is read with the high byte first
parseReceivedPacketHeader_bigEndianCounter(data) ==
  [ rawData       |-> Slice(data, 0, 20),
    identity      |-> Slice(data, 0, 4),
    type          |-> ReadUInt32LE(data, 4),
    index         |-> ReadUInt16LE(data, 8),
    subIndex      |-> ReadUInt16LE(data, 10),
    variableCount |-> ReadUInt16LE(data, 12),
    packetLength  |-> ReadUInt16LE(data, 14),
    counter       |-> 256 * data[17] + data[18],
    flags         |-> ReadUInt8(data, 18),
    checksum      |-> ReadUInt8(data, 19),
    payloadLength |-> ReadUInt16LE(data, 14) - 20 ]

\* Receiver.parseReceivedPacketHeader (when no read throws)
parseReceivedPacketHeader(data) ==
  [ rawData       |-> Slice(data, 0, 20),
    identity      |-> Slice(data, 0, 4),
    type          |-> ReadUInt32LE(data, 4),
    index         |-> ReadUInt16LE(data, 8),
    subIndex      |-> ReadUInt16LE(data, 10),
    variableCount |-> ReadUInt16LE(data, 12),
    packetLength  |-> ReadUInt16LE(data, 14),
    counter       |-> ReadUInt16LE(data, 16),
    flags         |-> ReadUInt8(data, 18),
    checksum      |-> ReadUInt8(data, 19),
    payloadLength |-> ReadUInt16LE(data, 14) - 20 ]

\* Receiver.parseReceivedPacket: header plus the bytes after it
parseReceivedPacket(data) ==
  LET header == parseReceivedPacketHeader(data)
  IN [ header  |-> header,
       payload |-> Slice(data, Len(header.rawData), Len(data)) ]

----------------------------------------------------------------------------
(* Receiver: inputs *)

\* list IDs in use
ListIDs == {50, 77}

\* dataType.byteLength of the handlers registered on a receiver fed by hand
HandlerByteLengths == {2, 3}

\* what the network delivers to a receiver fed by hand: fragments of list 50 with
\* two counters and every subIndex, fragments of list 77 with one counter
RxCounters == {0, 1}
ShortLengths == {0, 7, 19}

\* payload of a fragment: its first byte tells list, counter and subIndex apart
FragmentPayload(listID, counterNo, subIndex, length) ==
  [ i \in 1..length |->
      IF i = 1 THEN (IF listID = 50 THEN 0 ELSE 128) + 16 * counterNo + subIndex
               ELSE 255 ]

\* payload lengths on the wire: a first fragment of 1 or 2 bytes, later ones 1 byte
PayloadLengths(subIndex) == IF subIndex = 0 THEN {1, 2} ELSE {1}

\* header fields of a packet as the sender fills them in (getEmptyPacket)
PacketHeader(listID, counterNo, subIndex, variableCount, payloadLength) ==
  [ identity      |-> Identity,
    type          |-> 0,
    index         |-> listID,
    subIndex      |-> subIndex,
    variableCount |-> variableCount,
    packetLength  |-> 20 + payloadLength,
    counter       |-> counterNo,
    flags         |-> 0,
    checksum      |-> 0,
    payloadLength |-> payloadLength ]

\* a datagram on the wire: header bytes followed by the payload
Datagram(listID, counterNo, subIndex, payload) ==
  createPacketHeader(PacketHeader(listID, counterNo, subIndex, 1, Len(payload)))
    \o payload

WellFormedInputs ==
  UNION { { Datagram(50, c, s, FragmentPayload(50, c, s, n)) :
              c \in RxCounters, n \in PayloadLengths(s) } : s \in 0..MaxSubIndex }
  \cup
  { Datagram(77, 0, s, FragmentPayload(77, 0, s, 1)) : s \in {0, 1} }

\* datagrams cut short of a full header
MalformedInputs ==
  { SubSeq(Datagram(50, 0, 0, <<17>>), 1, n) : n \in ShortLengths }

RxInputs == WellFormedInputs \cup MalformedInputs

----------------------------------------------------------------------------
(* Receiver: handler registry *)

NoEntry == [none |-> TRUE]
NoOutcome == [kind |-> "none", index |-> 0]

\* this.handlers.filter(listener => listener.listID === index)
listenersOf(hs, index) == SelectSeq(hs, LAMBDA listener : listener.listID = index)

\* positions in hs of the listeners of index, in registration order
listenerPositions(hs, index) ==
  SelectSeq([i \in 1..Len(hs) |-> i], LAMBDA i : hs[i].listID = index)

\* Receiver.addHandler: a new Listener object is pushed.  Every call creates a
\* new object, so a Listener is identified by its position in handlers.
addHandler(listID, byteLength) ==
  /\ ~uncaught
  /\ Len(handlers) < MaxHandlers
  /\ handlers' = Append(handlers, [listID |-> listID, byteLength |-> byteLength])
  /\ lastCalls' = <<>>
  /\ lastOutcome' = NoOutcome
  /\ UNCHANGED <<packetBuffer, uncaught>>

\* Receiver.removeHandler: handlers.filter(x => x !== handler), handler being
\* the Listener object at position handler
removeHandler(handler) ==
  /\ ~uncaught
  /\ handler \in 1..Len(handlers)
  /\ handlers' = [ i \in 1..(Len(handlers) - 1) |->
                     IF i < handler THEN handlers[i] ELSE handlers[i + 1] ]
  /\ lastCalls' = <<>>
  /\ lastOutcome' = NoOutcome
  /\ UNCHANGED <<packetBuffer, uncaught>>

\* Receiver.removeAllHandlers
removeAllHandlers ==
  /\ ~uncaught
  /\ handlers # <<>>
  /\ handlers' = <<>>
  /\ lastCalls' = <<>>
  /\ lastOutcome' = NoOutcome
  /\ UNCHANGED <<packetBuffer, uncaught>>

----------------------------------------------------------------------------
(* Receiver: socket, listen() and close().  The dgram socket is "binding"  *)
(* from bind() until its callback or its 'error' event, "unbound" after a  *)
(* failed bind, "listening" once bound, and "closing" from socket.close()  *)
(* until its 'close' event.                                                *)

MaxCloses == 2        \* close() calls in one behaviour

EmptyBuffer == [l \in ListIDs |-> NoEntry]

\* variant: a new socket is created although the receiver holds one
listen_noGuard(bindThrows) ==
  /\ socket' = IF bindThrows THEN "unbound" ELSE "binding"
  /\ listenPromise' = IF bindThrows THEN "rejected" ELSE "pending"
  /\ lastListen' = IF bindThrows THEN "bindThrew" ELSE "created"
  /\ closeListeners' = {}
  /\ UNCHANGED <<closePromises, handlersAtClose, handlers, packetBuffer, lastCalls, lastOutcome, uncaught>>

\* Receiver.listen.  bindThrows: socket.bind() throws at once (the catch branch)
listen(bindThrows) ==
  IF socket # "none"
  THEN /\ lastListen' = "rejected"
       /\ UNCHANGED <<socket, listenPromise, closeListeners, closePromises, handlersAtClose,
                      handlers, packetBuffer, lastCalls, lastOutcome, uncaught>>
  ELSE /\ socket' = IF bindThrows THEN "unbound" ELSE "binding"
       /\ listenPromise' = IF bindThrows THEN "rejected" ELSE "pending"
       /\ lastListen' = IF bindThrows THEN "bindThrew" ELSE "created"
       /\ UNCHANGED <<closeListeners, closePromises, handlersAtClose,
                      handlers, packetBuffer, lastCalls, lastOutcome, uncaught>>

\* listen(): callback of socket.bind(), the 'message' listener is attached
bindListening ==
  /\ socket = "binding"
  /\ socket' = "listening"
  /\ listenPromise' = "resolved"
  /\ UNCHANGED <<lastListen, closeListeners, closePromises, handlersAtClose,
                 handlers, packetBuffer, lastCalls, lastOutcome, uncaught>>

\* listen(): bindingErrorEvent, the socket's 'error' event while binding
bindingErrorEvent ==
  /\ socket = "binding"
  /\ socket' = "unbound"
  /\ listenPromise' = "rejected"
  /\ UNCHANGED <<lastListen, closeListeners, closePromises, handlersAtClose,
                 handlers, packetBuffer, lastCalls, lastOutcome, uncaught>>

\* Receiver.close.  Without socket: cleanup and resolve.  socket.close(callback)
\* adds the callback as a 'close' listener and closes the handle; on a socket
\* that is closing already it throws after adding the listener, and the catch
\* branch runs cleanup, which removes every listener of the socket.
close ==
  /\ Len(closePromises) < MaxCloses
  /\ lastCalls' = <<>>
  /\ lastOutcome' = NoOutcome
  /\ IF socket = "none" \/ socket = "closing"
     THEN /\ socket' = "none"
          /\ closeListeners' = {}
          /\ handlers' = <<>>
          /\ packetBuffer' = EmptyBuffer
          /\ closePromises' = Append(closePromises, "resolved")
          /\ handlersAtClose' = -1
     ELSE /\ socket' = "closing"
          /\ closeListeners' = closeListeners \cup {Len(closePromises) + 1}
          /\ closePromises' = Append(closePromises, "pending")
          /\ handlersAtClose' = Len(handlers)
          /\ UNCHANGED <<handlers, packetBuffer>>
  /\ UNCHANGED <<listenPromise, lastListen, uncaught>>

\* the socket's 'close' event: the callbacks still attached run cleanup and resolve
closeEvent ==
  /\ socket = "closing"
  /\ socket' = "none"
  /\ closeListeners' = {}
  /\ handlers' = <<>>
  /\ packetBuffer' = EmptyBuffer
  /\ closePromises' = [ k \in 1..Len(closePromises) |->
                          IF k \in closeListeners THEN "resolved" ELSE closePromises[k] ]
  /\ handlersAtClose' = -1
  /\ lastCalls' = <<>>
  /\ lastOutcome' = NoOutcome
  /\ UNCHANGED <<listenPromise, lastListen, uncaught>>

----------------------------------------------------------------------------
(* Receiver: fragment assembly *)

RECURSIVE ConcatPayloads(_)
ConcatPayloads(pkts) ==
  IF pkts = <<>> THEN <<>> ELSE Head(pkts).payload \o ConcatPayloads(Tail(pkts))

\* variant: the write position is not advanced, every payload lands at position 0
convertBufferEntriesToPacket_noAdvance(buffer) ==
  LET last == buffer.packets[Len(buffer.packets)].payload
  IN [ i \in 1..buffer.totalDataBytes |-> IF i <= Len(last) THEN last[i] ELSE 0 ]

\* Receiver.convertBufferEntriesToPacket: a zeroed buffer of totalDataBytes bytes
\* into which every payload is copied at the running position
convertBufferEntriesToPacket(buffer) ==
  LET copied == ConcatPayloads(buffer.packets)
  IN [ i \in 1..buffer.totalDataBytes |-> IF i <= Len(copied) THEN copied[i] ELSE 0 ]

\* variant: at least the expected bytes instead of exactly the expected bytes
isComplete_atLeast(listener, buffer) == listener.byteLength <= buffer.totalDataBytes

\* checkReceivedPacket: all data is there when the first listener's byteLength
\* is the entry's totalDataBytes
isComplete(listener, buffer) == listener.byteLength = buffer.totalDataBytes

\* variant: the entries of all lists are deleted
discardUnregistered_all(pb, index) == [l \in DOMAIN pb |-> NoEntry]

\* variant: the entry of a list without listener is kept
discardUnregistered_keep(pb, index) == pb

\* checkReceivedPacket: no listener for the list ID, the entry is deleted
discardUnregistered(pb, index) == [pb EXCEPT ![index] = NoEntry]

\* variant: the entry is kept when a subIndex is missing
discardLost_keep(pb, index) == pb

\* handleReceivedPacket: same counter but not the next subIndex, the entry is deleted
discardLost(pb, index) == [pb EXCEPT ![index] = NoEntry]

\* variant: the entry of the old counter is kept
discardSuperseded_keep(pb, index) == pb

\* handleReceivedPacket: the counter changed while the entry was not handled
discardSuperseded(pb, index) == [pb EXCEPT ![index] = NoEntry]

\* variant: only the listener the completeness was judged against is called
callbacksFor_firstOnly(listeners, positions, data) ==
  <<[handler |-> positions[1], data |-> data]>>

\* checkReceivedPacket: for (const listener of listeners) listener.callback(...)
callbacksFor(listeners, positions, data) ==
  [ i \in 1..Len(listeners) |-> [handler |-> positions[i], data |-> data] ]

\* variant: any subIndex but the last one stored is taken for the next one
isNextSubIndex_anyOther(buffer, packet) ==
  packet.header.subIndex # buffer.packets[Len(buffer.packets)].header.subIndex

\* handleReceivedPacket: the subIndex has increased by one
isNextSubIndex(buffer, packet) ==
  packet.header.subIndex = buffer.packets[Len(buffer.packets)].header.subIndex + 1

\* variant: the fragment is stored but its bytes are not counted
appendPacket_notCounted(buffer, packet) ==
  [buffer EXCEPT !.packets = Append(@, packet)]

\* handleReceivedPacket: buffer.packets.push(packet) and
\* buffer.totalDataBytes += packet.payload.rawData.byteLength
appendPacket(buffer, packet) ==
  [buffer EXCEPT !.packets = Append(@, packet),
                 !.totalDataBytes = @ + Len(packet.payload)]

\* Receiver.checkReceivedPacket.  buffer is the entry object handed in; it is the
\* object stored under index exactly when pb[index] = buffer.
checkReceivedPacket(pb, hs, index, buffer, outcome) ==
  LET listeners == listenersOf(hs, index)
      positions == listenerPositions(hs, index)
  IN
  IF Len(listeners) > 0
  THEN IF isComplete(listeners[1], buffer)
       THEN LET data == convertBufferEntriesToPacket(buffer)
            IN [ packetBuffer |-> IF pb[index] = buffer
                                  THEN [pb EXCEPT ![index].handled = TRUE]
                                  ELSE pb,
                 calls   |-> callbacksFor(listeners, positions, data),
                 outcome |-> outcome ]
       ELSE [ packetBuffer |-> pb, calls |-> <<>>, outcome |-> outcome ]
  ELSE [ packetBuffer |-> discardUnregistered(pb, index),
         calls |-> <<>>, outcome |-> outcome ]

\* Receiver.handleReceivedPacket
handleReceivedPacket(pb, hs, packet) ==
  LET index == packet.header.index
      buffer == pb[index]
  IN
  IF buffer # NoEntry /\ buffer.counter = packet.header.counter
  THEN IF isNextSubIndex(buffer, packet)
       THEN LET appended == appendPacket(buffer, packet)
            IN checkReceivedPacket([pb EXCEPT ![index] = appended], hs, index,
                                   appended, "append")
       ELSE [ packetBuffer |-> discardLost(pb, index),
              calls |-> <<>>, outcome |-> "gap" ]
  ELSE LET pb1 == IF buffer # NoEntry /\ ~buffer.handled
                  THEN discardSuperseded(pb, index)
                  ELSE pb
       IN IF packet.header.subIndex = 0
          THEN LET created == [ handled        |-> FALSE,
                                counter        |-> packet.header.counter,
                                packets        |-> <<packet>>,
                                totalDataBytes |-> Len(packet.payload) ]
               IN checkReceivedPacket([pb1 EXCEPT ![index] = created], hs, index,
                                      created, "start")
          ELSE IF buffer # NoEntry
               \* the local variable still refers to the old entry object
               THEN checkReceivedPacket(pb1, hs, index, buffer, "recheck")
               ELSE [ packetBuffer |-> pb1, calls |-> <<>>, outcome |-> "drop" ]

\* Receiver.handleReceivedData: the socket's 'message' listener
handleReceivedData(data) ==
  /\ ~uncaught
  /\ IF parseHeaderThrows(data)
     THEN /\ uncaught' = TRUE
          /\ lastCalls' = <<>>
          /\ lastOutcome' = [kind |-> "throw", index |-> 0]
          /\ UNCHANGED <<handlers, packetBuffer>>
     ELSE LET packet == parseReceivedPacket(data)
              result == handleReceivedPacket(packetBuffer, handlers, packet)
          IN /\ packetBuffer' = result.packetBuffer
             /\ lastCalls' = result.calls
             /\ lastOutcome' = [kind |-> result.outcome, index |-> packet.header.index]
             /\ UNCHANGED <<handlers, uncaught>>

\* handleReceivedData in which the callback of call number by calls
\* removeHandler(victim).  checkReceivedPacket loops over the array it filtered
\* before the first callback, which removeHandler does not touch: it replaces
\* this.handlers by a new array.
handleReceivedDataRemoving(data, by, victim) ==
  /\ ~uncaught
  /\ ~parseHeaderThrows(data)
  /\ LET packet == parseReceivedPacket(data)
         result == handleReceivedPacket(packetBuffer, handlers, packet)
     IN /\ by \in 1..Len(result.calls)
        /\ victim \in 1..Len(handlers)
        /\ packetBuffer' = result.packetBuffer
        /\ lastCalls' = result.calls
        /\ lastOutcome' = [kind |-> result.outcome, index |-> packet.header.index]
        /\ handlers' = [ i \in 1..(Len(handlers) - 1) |->
                           IF i < victim THEN handlers[i] ELSE handlers[i + 1] ]
        /\ removedBy' = [by |-> by, handler |-> victim]
        /\ UNCHANGED uncaught

----------------------------------------------------------------------------
(* Sender: inputs *)

MaxFields == 3        \* leaf elements of a data type
MaxSends == 2         \* send() calls in one behaviour

\* byteLength of a leaf element: 256 fills a packet, 300 is larger than one
FieldSizes == {44, 256, 300}
FieldSeqs == UNION { [1..n -> FieldSizes] : n \in 1..MaxFields }

RECURSIVE SumTo(_, _)
SumTo(sizes, n) == IF n = 0 THEN 0 ELSE sizes[n] + SumTo(sizes, n - 1)

\* an IecType as send() uses it: byteLength and the elements elementIterator()
\* yields, which tile the buffer in wire order; throwsAt = k > 0 makes the
\* iterator raise an error instead of yielding its k-th element
DataType(sizes, throwsAt) ==
  [ byteLength |-> SumTo(sizes, Len(sizes)),
    elements   |-> [ i \in 1..Len(sizes) |->
                     [startIndex |-> SumTo(sizes, i - 1), byteLength |-> sizes[i]] ],
    throwsAt   |-> throwsAt ]

DataTypes ==
  { DataType(sizes, 0) : sizes \in FieldSeqs }
  \cup { DataType(<<44, 256>>, k) : k \in {1, 2} }

\* values to send; BadData does not match the schema, so convertToBuffer throws
DataValues == {3, 200}
BadData == -1

\* dataType.convertToBuffer(data): byteLength bytes that depend on value and position
convertToBuffer(dataType, data) ==
  [ i \in 1..dataType.byteLength |-> (data + i) % 251 ]

----------------------------------------------------------------------------
(* Sender: splitting a message into packets *)

\* send(): the counter is reset when it has reached 65535, then taken and incremented
counterNoOf(counter) == IF counter >= UInt16Limit THEN 0 ELSE counter

\* variant: the counter is read but not incremented
counterAfter_same(counter) == counterNoOf(counter)

\* send(): this.counterNumber after const counterNo = this.counterNumber++
counterAfter(counter) == counterNoOf(counter) + 1

\* variant: the packet length starts at 0, the header is not counted
getEmptyPacket_headerNotCounted(listID, counterNo) ==
  [ header  |-> [PacketHeader(listID, counterNo, 0, 0, 0) EXCEPT !.packetLength = 0],
    payload |-> <<>>,
    rawData |-> <<>> ]

\* send(): getEmptyPacket
getEmptyPacket(listID, counterNo) ==
  [ header  |-> PacketHeader(listID, counterNo, 0, 0, 0),
    payload |-> <<>>,
    rawData |-> <<>> ]

\* variant: a new packet is opened only when the current one is over the limit
addElement_ignoresElement(state, element, raw, listID, counterNo) ==
  LET packet == state.packet
      full == packet.header.payloadLength > MaxPayload
      next == [getEmptyPacket(listID, counterNo) EXCEPT
                 !.header.subIndex = packet.header.subIndex + 1]
      current == IF full THEN next ELSE packet
      elementRawData == Slice(raw, element.startIndex,
                              element.startIndex + element.byteLength)
  IN [ packets |-> IF full THEN Append(state.packets, packet) ELSE state.packets,
       packet  |-> [current EXCEPT
                      !.header.variableCount = @ + 1,
                      !.header.payloadLength = @ + element.byteLength,
                      !.header.packetLength = @ + element.byteLength,
                      !.payload = @ \o elementRawData] ]

\* variant: a packet is closed as soon as the element fills it to the limit
addElement_closesAtLimit(state, element, raw, listID, counterNo) ==
  LET packet == state.packet
      full == packet.header.payloadLength + element.byteLength >= MaxPayload
      next == [getEmptyPacket(listID, counterNo) EXCEPT
                 !.header.subIndex = packet.header.subIndex + 1]
      current == IF full THEN next ELSE packet
      elementRawData == Slice(raw, element.startIndex,
                              element.startIndex + element.byteLength)
  IN [ packets |-> IF full THEN Append(state.packets, packet) ELSE state.packets,
       packet  |-> [current EXCEPT
                      !.header.variableCount = @ + 1,
                      !.header.payloadLength = @ + element.byteLength,
                      !.header.packetLength = @ + element.byteLength,
                      !.payload = @ \o elementRawData] ]

\* variant: the next packet gets the subIndex of the one before
addElement_sameSubIndex(state, element, raw, listID, counterNo) ==
  LET packet == state.packet
      full == packet.header.payloadLength + element.byteLength > MaxPayload
      next == [getEmptyPacket(listID, counterNo) EXCEPT
                 !.header.subIndex = packet.header.subIndex]
      current == IF full THEN next ELSE packet
      elementRawData == Slice(raw, element.startIndex,
                              element.startIndex + element.byteLength)
  IN [ packets |-> IF full THEN Append(state.packets, packet) ELSE state.packets,
       packet  |-> [current EXCEPT
                      !.header.variableCount = @ + 1,
                      !.header.payloadLength = @ + element.byteLength,
                      !.header.packetLength = @ + element.byteLength,
                      !.payload = @ \o elementRawData] ]

\* send(): one round of the loop over the elements
addElement(state, element, raw, listID, counterNo) ==
  LET packet == state.packet
      full == packet.header.payloadLength + element.byteLength > MaxPayload
      next == [getEmptyPacket(listID, counterNo) EXCEPT
                 !.header.subIndex = packet.header.subIndex + 1]
      current == IF full THEN next ELSE packet
      elementRawData == Slice(raw, element.startIndex,
                              element.startIndex + element.byteLength)
  IN [ packets |-> IF full THEN Append(state.packets, packet) ELSE state.packets,
       packet  |-> [current EXCEPT
                      !.header.variableCount = @ + 1,
                      !.header.payloadLength = @ + element.byteLength,
                      !.header.packetLength = @ + element.byteLength,
                      !.payload = @ \o elementRawData] ]

RECURSIVE splitElements(_, _, _, _, _)
splitElements(state, elements, raw, listID, counterNo) ==
  IF elements = <<>>
  THEN Append(state.packets, state.packet)
  ELSE splitElements(addElement(state, Head(elements), raw, listID, counterNo),
                     Tail(elements), raw, listID, counterNo)

\* send(): raw data of a packet is its header followed by its payload
withRawData(p) == [p EXCEPT !.rawData = createPacketHeader(p.header) \o p.payload]

\* send(): the packets of one message
splitPackets(listID, dataType, raw, counterNo) ==
  LET split == splitElements([packets |-> <<>>, packet |-> getEmptyPacket(listID, counterNo)],
                             dataType.elements, raw, listID, counterNo)
  IN [ i \in 1..Len(split) |-> withRawData(split[i]) ]

----------------------------------------------------------------------------
(* Sender: the send() call and the callbacks it waits for *)

settle(p, outcome) == IF p = "pending" THEN outcome ELSE p

\* Sender.send up to client.bind(): runs without interruption
send(listID, dataType, data) ==
  /\ sendPc = "idle"
  /\ promise = "none"
  /\ sendCalls < MaxSends
  /\ sendCalls' = sendCalls + 1
  /\ promise' = "pending"
  /\ sendArgs' = [listID |-> listID, dataType |-> dataType, data |-> data]
  /\ sendFailed' = FALSE
  /\ transmitted' = <<>>
  /\ delivered' = 0
  /\ sendsCompleted' = 0
  /\ delaysElapsed' = 0
  /\ IF data = BadData
     THEN \* convertToBuffer throws before a counter is taken
          /\ thrown' = TRUE
          /\ rawData' = <<>>
          /\ packets' = <<>>
          /\ client' = "none"
          /\ sendPc' = "idle"
          /\ UNCHANGED <<counterNumber, usedCounters>>
     ELSE /\ counterNumber' = counterAfter(counterNumber)
          /\ usedCounters' = Append(usedCounters, counterNoOf(counterNumber))
          /\ rawData' = convertToBuffer(dataType, data)
          /\ IF dataType.throwsAt # 0
             THEN \* elementIterator throws inside the loop
                  /\ thrown' = TRUE
                  /\ packets' = <<>>
                  /\ client' = "none"
                  /\ sendPc' = "idle"
             ELSE /\ thrown' = FALSE
                  /\ packets' = splitPackets(listID, dataType,
                                             convertToBuffer(dataType, data),
                                             counterNoOf(counterNumber))
                  /\ client' = "created"
                  /\ sendPc' = "binding"

\* nothing of the call can run any more and its caller has seen the outcome: the
\* call's locals and its promise go out of scope, the Sender keeps its counter
endOfCall ==
  /\ sendPc = "idle"
  /\ promise # "none"
  /\ rawData' = <<>>
  /\ packets' = <<>>
  /\ client' = "none"
  /\ promise' = "none"
  /\ sendArgs' = [listID |-> 0, dataType |-> DataType(<<>>, 0), data |-> 0]
  /\ sendFailed' = FALSE
  /\ thrown' = FALSE
  /\ transmitted' = <<>>
  /\ sendsCompleted' = 0
  /\ delaysElapsed' = 0
  /\ delivered' = 0
  /\ UNCHANGED <<counterNumber, sendCalls, usedCounters, sendPc>>

\* sendPacket: client.send(packet.rawData, ...)
transmit(p) == transmitted' = Append(transmitted, p.rawData)

\* callback of client.bind(): setBroadcast, then the first packet is sent
bindCallback ==
  /\ sendPc = "binding"
  /\ client' = "bound"
  /\ transmit(packets[1])
  /\ sendPc' = "sending"
  /\ UNCHANGED <<counterNumber, sendCalls, usedCounters, rawData, packets, promise,
                 sendArgs, sendFailed, thrown, sendsCompleted, delaysElapsed>>

\* 'error' event while binding: reject(err); the bind callback never runs
bindError ==
  /\ sendPc = "binding"
  /\ promise' = settle(promise, "rejected")
  /\ sendPc' = "idle"
  /\ UNCHANGED <<counterNumber, sendCalls, usedCounters, rawData, packets, client,
                 sendArgs, sendFailed, thrown, transmitted, sendsCompleted,
                 delaysElapsed>>

\* variant: the next packet is sent at once, without waiting for the timer
sendCallbackOk_noDelay ==
  /\ sendPc = "sending"
  /\ sendsCompleted' = sendsCompleted + 1
  /\ IF Len(transmitted) < Len(packets)
     THEN /\ transmit(packets[Len(transmitted) + 1])
          /\ sendPc' = "sending"
     ELSE /\ sendPc' = "closing"
          /\ UNCHANGED transmitted
  /\ UNCHANGED <<counterNumber, sendCalls, usedCounters, rawData, packets, client,
                 promise, sendArgs, sendFailed, thrown, delaysElapsed>>

\* callback of client.send() without error: sendPacket resolves, the delay starts
sendCallbackOk ==
  /\ sendPc = "sending"
  /\ sendsCompleted' = sendsCompleted + 1
  /\ sendPc' = "delay"
  /\ UNCHANGED <<counterNumber, sendCalls, usedCounters, rawData, packets, client,
                 promise, sendArgs, sendFailed, thrown, transmitted, delaysElapsed>>

\* variant: the error is reported but the loop is not left
sendCallbackError_goesOn ==
  /\ sendPc = "sending"
  /\ sendFailed' = TRUE
  /\ promise' = settle(promise, "rejected")
  /\ sendPc' = "delay"
  /\ UNCHANGED <<counterNumber, sendCalls, usedCounters, rawData, packets, client,
                 sendArgs, thrown, transmitted, sendsCompleted, delaysElapsed>>

\* callback of client.send() with an error: sendPacket rejects, the loop is left
sendCallbackError ==
  /\ sendPc = "sending"
  /\ sendFailed' = TRUE
  /\ client' = "closed"
  /\ promise' = settle(promise, "rejected")
  /\ sendPc' = "idle"
  /\ UNCHANGED <<counterNumber, sendCalls, usedCounters, rawData, packets,
                 sendArgs, thrown, transmitted, sendsCompleted, delaysElapsed>>

\* the timer between two packets fires: next packet, or close after the last one
delayElapsed ==
  /\ sendPc = "delay"
  /\ delaysElapsed' = delaysElapsed + 1
  /\ IF Len(transmitted) < Len(packets)
     THEN /\ transmit(packets[Len(transmitted) + 1])
          /\ sendPc' = "sending"
     ELSE /\ sendPc' = "closing"
          /\ UNCHANGED transmitted
  /\ UNCHANGED <<counterNumber, sendCalls, usedCounters, rawData, packets, client,
                 promise, sendArgs, sendFailed, thrown, sendsCompleted>>

\* callback of client.close(): resolve()
closeCallback ==
  /\ sendPc = "closing"
  /\ client' = "closed"
  /\ promise' = settle(promise, "resolved")
  /\ sendPc' = "idle"
  /\ UNCHANGED <<counterNumber, sendCalls, usedCounters, rawData, packets,
                 sendArgs, sendFailed, thrown, transmitted, sendsCompleted,
                 delaysElapsed>>

\* 'error' event of the bound socket: reject(err), the loop goes on
socketError ==
  /\ sendPc \in {"sending", "delay", "closing"}
  /\ promise = "pending"
  /\ promise' = "rejected"
  /\ UNCHANGED <<counterNumber, sendCalls, usedCounters, sendPc, rawData, packets,
                 client, sendArgs, sendFailed, thrown, transmitted, sendsCompleted,
                 delaysElapsed>>

----------------------------------------------------------------------------
(* Sender: several send() calls in flight.  The executor of send() runs    *)
(* without a break up to client.bind(), so a call takes its counter and    *)
(* builds its packets in one step; from then on the callbacks of the calls *)
(* in flight interleave, each call on its own socket.                      *)

\* byteLength of the elements of the messages sent concurrently: 1, 2 and 3 packets
ConcFieldSeqs == { <<44>>, <<256, 44>>, <<300, 300>> }

HeadersOf(pkts) == [ i \in 1..Len(pkts) |-> pkts[i].header ]

\* send() up to client.bind(): the call joins the calls in flight
sendConcurrent(listID, dataType, data) ==
  /\ sendCalls < MaxSends
  /\ sendCalls' = sendCalls + 1
  /\ counterNumber' = counterAfter(counterNumber)
  /\ inFlight' = Append(inFlight,
       [ listID    |-> listID,
         counterNo |-> counterNoOf(counterNumber),
         packets   |-> HeadersOf(splitPackets(listID, dataType,
                                              convertToBuffer(dataType, data),
                                              counterNoOf(counterNumber))),
         pc        |-> "binding",
         sent      |-> 0 ])
  /\ UNCHANGED <<usedCounters, sendPc, rawData, packets, client, promise, sendArgs,
                 sendFailed, thrown, transmitted, sendsCompleted, delaysElapsed>>

Without(calls, i) ==
  [ j \in 1..(Len(calls) - 1) |-> IF j < i THEN calls[j] ELSE calls[j + 1] ]

\* the next callback of call i runs.  failed: a client.send() callback reports an error
callbackOf(i, failed) ==
  LET call == inFlight[i] IN
  /\ inFlight' =
       CASE call.pc = "binding" ->
              [inFlight EXCEPT ![i].pc = "sending", ![i].sent = 1]
         [] call.pc = "sending" /\ failed -> Without(inFlight, i)
         [] call.pc = "sending" /\ ~failed -> [inFlight EXCEPT ![i].pc = "delay"]
         [] call.pc = "delay" /\ call.sent < Len(call.packets) ->
              [inFlight EXCEPT ![i].pc = "sending", ![i].sent = @ + 1]
         [] call.pc = "delay" /\ call.sent >= Len(call.packets) ->
              [inFlight EXCEPT ![i].pc = "closing"]
         [] call.pc = "closing" -> Without(inFlight, i)
  /\ UNCHANGED svars

----------------------------------------------------------------------------
(* Receiver fed by hand: any datagram may arrive at any time *)

RInit ==
  /\ handlers = <<>>
  /\ packetBuffer = [l \in ListIDs |-> NoEntry]
  /\ lastCalls = <<>>
  /\ lastOutcome = NoOutcome
  /\ uncaught = FALSE

NoArgs == [listID |-> 0, dataType |-> DataType(<<>>, 0), data |-> 0]

\* a sender whose counterNumber is c and that has no send() in flight
SIdle(c) ==
  /\ counterNumber = c
  /\ sendCalls = 0
  /\ usedCounters = <<>>
  /\ sendPc = "idle"
  /\ rawData = <<>>
  /\ packets = <<>>
  /\ client = "none"
  /\ promise = "none"
  /\ sendArgs = NoArgs
  /\ sendFailed = FALSE
  /\ thrown = FALSE
  /\ transmitted = <<>>
  /\ sendsCompleted = 0
  /\ delaysElapsed = 0

NoRemoval == [by |-> 0, handler |-> 0]
NoRun == [counter |-> -1, deliveries |-> 0]
NoArrival == [counter |-> -1, sizes |-> <<>>, order |-> <<>>, calls |-> 0]

\* a receiver that was never started, no delivery yet, no concurrent send()
XInit ==
  /\ socket = "none"
  /\ closeListeners = {}
  /\ closePromises = <<>>
  /\ handlersAtClose = -1
  /\ listenPromise = "none"
  /\ lastListen = "none"
  /\ removedBy = NoRemoval
  /\ run = NoRun
  /\ inFlight = <<>>
  /\ arrival = NoArrival

\* no header handed to the codec
NoCodec == [stage |-> "none"]

Init == RInit /\ SIdle(0) /\ delivered = 0 /\ XInit /\ codec = NoCodec

AddHandler ==
  \E l \in ListIDs, b \in HandlerByteLengths :
    addHandler(l, b) /\ UNCHANGED <<svars, delivered, xvars>>

RemoveHandler ==
  \E i \in 1..Len(handlers) :
    removeHandler(i) /\ UNCHANGED <<svars, delivered, xvars>>

RemoveAllHandlers == removeAllHandlers /\ UNCHANGED <<svars, delivered, xvars>>

Receive ==
  \E data \in RxInputs :
    handleReceivedData(data) /\ UNCHANGED <<svars, delivered, xvars>>

Next == AddHandler \/ RemoveHandler \/ RemoveAllHandlers \/ Receive

Spec == Init /\ [][Next]_vars

----------------------------------------------------------------------------
(* Sender alone: its datagrams go nowhere *)

Send ==
  \E l \in ListIDs, t \in DataTypes, d \in DataValues \cup {BadData} :
    send(l, t, d) /\ UNCHANGED <<rvars, xvars>>

BindCallback == bindCallback /\ UNCHANGED <<rvars, delivered, xvars>>
BindError == bindError /\ UNCHANGED <<rvars, delivered, xvars>>
SendCallbackOk == sendCallbackOk /\ UNCHANGED <<rvars, delivered, xvars>>
SendCallbackError == sendCallbackError /\ UNCHANGED <<rvars, delivered, xvars>>
DelayElapsed == delayElapsed /\ UNCHANGED <<rvars, delivered, xvars>>
CloseCallback == closeCallback /\ UNCHANGED <<rvars, delivered, xvars>>
SocketError == socketError /\ UNCHANGED <<rvars, delivered, xvars>>
EndOfCall == endOfCall /\ UNCHANGED <<rvars, xvars>>

NextSend ==
  \/ Send
  \/ BindCallback
  \/ BindError
  \/ SendCallbackOk
  \/ SendCallbackError
  \/ DelayElapsed
  \/ CloseCallback
  \/ SocketError
  \/ EndOfCall

SpecSend == Init /\ [][NextSend]_vars

----------------------------------------------------------------------------
(* Sender that has sent many messages before: counterNumber near its limit *)

\* values counterNumber holds after UInt16Limit - 2 and more send() calls
CounterStarts == {UInt16Limit - 2, UInt16Limit - 1, UInt16Limit}

InitWrap ==
  /\ RInit
  /\ \E c \in CounterStarts : SIdle(c)
  /\ delivered = 0
  /\ XInit
  /\ codec = NoCodec

SpecWrap == InitWrap /\ [][NextSend]_vars

----------------------------------------------------------------------------
(* Sender and receiver joined by a network that delivers every datagram, in
   the order sent; handlers are registered while nothing is under way *)

\* dataType.byteLength of the handlers, and the data types sent
E2EByteLengths == {300, 344}
E2ETypes == { t \in DataTypes : t.throwsAt = 0 /\ t.byteLength \in E2EByteLengths }

Quiet == sendPc = "idle" /\ delivered = Len(transmitted)

Register ==
  /\ Quiet
  /\ promise = "none"
  /\ \E b \in E2EByteLengths : addHandler(50, b)
  /\ UNCHANGED <<svars, delivered, xvars>>

SendMessage ==
  \E t \in E2ETypes, d \in DataValues : send(50, t, d) /\ UNCHANGED <<rvars, xvars>>

\* the next datagram reaches the receiver's socket: its 'message' listener runs
Deliver ==
  /\ delivered < Len(transmitted)
  /\ handleReceivedData(transmitted[delivered + 1])
  /\ delivered' = delivered + 1
  /\ UNCHANGED <<svars, xvars>>

Completed == Quiet /\ EndOfCall

NextE2E ==
  \/ Register
  \/ SendMessage
  \/ BindCallback
  \/ SendCallbackOk
  \/ DelayElapsed
  \/ CloseCallback
  \/ Deliver
  \/ Completed

SpecE2E == Init /\ [][NextE2E]_vars

----------------------------------------------------------------------------
(* Receiver with its socket: listen(), close(), handlers of list 50 and the
   datagrams that arrive while the socket is listening *)

LifeInputs ==
  { Datagram(50, 0, sub, FragmentPayload(50, 0, sub, n)) :
      sub \in {0, 1}, n \in {1, 2} }

ovars == <<svars, delivered, removedBy, run, cvars, avars, hvars>>

Listen == \E bindThrows \in BOOLEAN : listen(bindThrows) /\ UNCHANGED ovars
BindListening == bindListening /\ UNCHANGED ovars
BindingErrorEvent == bindingErrorEvent /\ UNCHANGED ovars
Close == close /\ UNCHANGED ovars
CloseEvent == closeEvent /\ UNCHANGED ovars
LifeAddHandler ==
  \E b \in HandlerByteLengths : addHandler(50, b) /\ UNCHANGED <<ovars, lvars>>
LifeReceive ==
  /\ socket = "listening"
  /\ \E data \in LifeInputs : handleReceivedData(data)
  /\ UNCHANGED <<ovars, lvars>>

NextLife ==
  \/ Listen
  \/ BindListening
  \/ BindingErrorEvent
  \/ Close
  \/ CloseEvent
  \/ LifeAddHandler
  \/ LifeReceive

SpecLife == Init /\ [][NextLife]_vars

----------------------------------------------------------------------------
(* Sender on which send() is called while earlier calls are in flight *)

SendConcurrent ==
  \E l \in ListIDs, sizes \in ConcFieldSeqs, d \in DataValues :
    /\ sendConcurrent(l, DataType(sizes, 0), d)
    /\ UNCHANGED <<rvars, delivered, lvars, removedBy, run, avars, hvars>>

CallbackOf ==
  \E i \in 1..Len(inFlight), failed \in BOOLEAN :
    /\ callbackOf(i, failed)
    /\ UNCHANGED <<rvars, delivered, lvars, removedBy, run, avars, hvars>>

NextConc == SendConcurrent \/ CallbackOf

SpecConc == Init /\ [][NextConc]_vars

----------------------------------------------------------------------------
(* Receiver whose callbacks may call removeHandler() *)

pvars == <<svars, delivered, lvars, run, cvars, avars, hvars>>

CallbackAddHandler ==
  /\ \E b \in HandlerByteLengths : addHandler(50, b)
  /\ removedBy' = NoRemoval
  /\ UNCHANGED pvars

CallbackRemoveHandler ==
  /\ \E i \in 1..Len(handlers) : removeHandler(i)
  /\ removedBy' = NoRemoval
  /\ UNCHANGED pvars

CallbackReceive ==
  /\ \E data \in LifeInputs : handleReceivedData(data)
  /\ removedBy' = NoRemoval
  /\ UNCHANGED pvars

CallbackReceiveRemoving ==
  /\ \E data \in LifeInputs, by \in 1..MaxHandlers, victim \in 1..MaxHandlers :
       handleReceivedDataRemoving(data, by, victim)
  /\ UNCHANGED pvars

NextCallback ==
  \/ CallbackAddHandler
  \/ CallbackRemoveHandler
  \/ CallbackReceive
  \/ CallbackReceiveRemoving

SpecCallback == Init /\ [][NextCallback]_vars

----------------------------------------------------------------------------
(* Receiver to which the network delivers the datagrams of one logical
   message, each any number of times and in any order.  The message with
   counter 0 is one fragment of two bytes, the message with counter 1 is two
   fragments of one byte, the message with counter 2 is three fragments of one
   byte; handlers are registered before the first datagram arrives *)

MaxDeliveries == 2    \* deliveries of one message after which no datagram is fed

DupInputs ==
  { Datagram(50, 0, 0, FragmentPayload(50, 0, 0, 2)),
    Datagram(50, 1, 0, FragmentPayload(50, 1, 0, 1)),
    Datagram(50, 1, 1, FragmentPayload(50, 1, 1, 1)),
    Datagram(50, 2, 0, FragmentPayload(50, 2, 0, 1)),
    Datagram(50, 2, 1, FragmentPayload(50, 2, 1, 1)),
    Datagram(50, 2, 2, FragmentPayload(50, 2, 2, 1)) }

dvars == <<svars, delivered, lvars, removedBy, cvars, avars, hvars>>

DupAddHandler ==
  /\ run = NoRun
  /\ \E b \in HandlerByteLengths : addHandler(50, b)
  /\ UNCHANGED <<dvars, run>>

\* a datagram of the message under way arrives; run counts the deliveries made
DupReceive ==
  /\ run.deliveries < MaxDeliveries
  /\ \E data \in DupInputs :
       LET counter == parseReceivedPacketHeader(data).counter
       IN /\ run = NoRun \/ run.counter = counter
          /\ handleReceivedData(data)
          /\ run' = [counter |-> counter,
                     deliveries |-> run.deliveries
                                    + (IF lastCalls' # <<>> THEN 1 ELSE 0)]
  /\ UNCHANGED dvars

NextDup == DupAddHandler \/ DupReceive

SpecDup == Init /\ [][NextDup]_vars

----------------------------------------------------------------------------
(* Receiver to which the network delivers the datagrams of successive logical
   messages of list 50, each datagram once, the datagrams of one message in any
   order.  A message is MessageBytes bytes long and is cut in one of
   MessageShapes; the handlers are registered before the first datagram *)

MaxMessages == 2      \* logical messages the network delivers

MessageBytes == 3
MessageShapes == {<<2, 1>>, <<1, 2>>, <<1, 1, 1>>}

\* the subIndex values 0..n-1 in increasing order
Increasing(n) == [i \in 1..n |-> i - 1]

AllArrived(a) == Len(a.order) = Len(a.sizes)

qvars == <<svars, delivered, lvars, removedBy, run, cvars, hvars>>

OrderAddHandler ==
  /\ arrival = NoArrival
  /\ \E b \in HandlerByteLengths : addHandler(50, b)
  /\ UNCHANGED <<qvars, arrival>>

\* a datagram arrives: one of the message under way that has not arrived yet
\* or, when all of them have, one of the next message
OrderReceive ==
  \E sizes \in MessageShapes :
    LET under == IF AllArrived(arrival)
                 THEN [counter |-> arrival.counter + 1, sizes |-> sizes,
                       order |-> <<>>, calls |-> 0]
                 ELSE arrival
    IN /\ under.counter < MaxMessages
       /\ under.sizes = sizes
       /\ \E s \in 0..(Len(sizes) - 1) :
            /\ \A i \in 1..Len(under.order) : under.order[i] # s
            /\ handleReceivedData(
                 Datagram(50, under.counter, s,
                          FragmentPayload(50, under.counter, s, sizes[s + 1])))
            /\ arrival' =
                 [under EXCEPT
                    !.order = Append(@, s),
                    !.calls = @ + (IF /\ lastCalls' # <<>>
                                      /\ lastOutcome'.kind \in {"start", "append"}
                                   THEN 1 ELSE 0)]
       /\ UNCHANGED qvars

NextOrder == OrderAddHandler \/ OrderReceive

SpecOrder == Init /\ [][NextOrder]_vars

----------------------------------------------------------------------------
(* Header codec applied to one header: createPacketHeader writes its 20 bytes,
   parseReceivedPacketHeader reads them.  Every field takes its smallest
   value, a value whose bytes all differ, and a large value of its width *)

UInt8Values == {0, 7, 255}
UInt16Values == {0, 258, 65535}
\* 0x01020304, and the largest 32-bit value the model checker's integers hold
UInt32Values == {0, 16909060, 2147483647}
IdentityValues == {Identity, <<1, 2, 3, 4>>}

CodecHeaders ==
  [ identity      : IdentityValues,
    type          : UInt32Values,
    index         : UInt16Values,
    subIndex      : UInt16Values,
    variableCount : UInt16Values,
    packetLength  : UInt16Values,
    counter       : UInt16Values,
    flags         : UInt8Values,
    checksum      : UInt8Values ]

InitCodec ==
  /\ RInit
  /\ SIdle(0)
  /\ delivered = 0
  /\ XInit
  /\ \E header \in CodecHeaders : codec = [stage |-> "header", header |-> header]

kvars == <<rvars, svars, delivered, lvars, removedBy, run, cvars, avars>>

\* Sender.createPacketHeader applied to the header
Encode ==
  /\ codec.stage = "header"
  /\ codec' = [stage |-> "encoded", header |-> codec.header,
               bytes |-> createPacketHeader(codec.header)]
  /\ UNCHANGED kvars

\* Receiver.parseReceivedPacketHeader applied to the bytes
Decode ==
  /\ codec.stage = "encoded"
  /\ ~parseHeaderThrows(codec.bytes)
  /\ codec' = [stage |-> "decoded", header |-> codec.header, bytes |-> codec.bytes,
               decoded |-> parseReceivedPacketHeader(codec.bytes)]
  /\ UNCHANGED kvars

NextCodec == Encode \/ Decode

SpecCodec == InitCodec /\ [][NextCodec]_vars

----------------------------------------------------------------------------
(* Properties *)

\* the listeners of the list the message under way is sent to, and the calls
\* that hand each of them the whole message
MessageListeners == listenersOf(handlers, sendArgs.listID)
WholeMessageCalls ==
  [ i \in 1..Len(MessageListeners) |->
      [handler |-> listenerPositions(handlers, sendArgs.listID)[i], data |-> rawData] ]

\* C1 (as amended): when the packets of one send() call reach the receiver in
\* subIndex order while the first handler registered for the list ID expects
\* exactly the length of the message, no callback runs before the last packet
\* and the last packet makes every handler of the list run once, with the
\* reassembled buffer equal to the sender's rawData byte for byte.
C1_RoundTrip ==
  [][ ( /\ delivered' = delivered + 1
        /\ MessageListeners # <<>>
        /\ MessageListeners[1].byteLength = Len(rawData) )
      => lastCalls' = IF delivered' = Len(packets) THEN WholeMessageCalls ELSE <<>>
    ]_vars

\* C1 witness: a message of several packets has been delivered and handed over whole
C1_Witness ==
  /\ Len(packets) >= 2
  /\ delivered = Len(packets)
  /\ lastCalls # <<>>
  /\ \A i \in 1..Len(lastCalls) : lastCalls[i].data = rawData

\* C1 as stated: any registered handler of the list whose byteLength is the
\* length of the message is called exactly once, with the whole message, by the
\* last packet and not before.
C1_AnyMatchingHandler ==
  [][ delivered' = delivered + 1
      => \A i \in 1..Len(handlers) :
           ( /\ handlers[i].listID = sendArgs.listID
             /\ handlers[i].byteLength = Len(rawData) )
           => LET mine == SelectSeq(lastCalls', LAMBDA c : c.handler = i)
              IN mine = IF delivered' = Len(packets)
                        THEN <<[handler |-> i, data |-> rawData]>>
                        ELSE <<>>
    ]_vars

RECURSIVE SumPayloads(_)
SumPayloads(pkts) ==
  IF pkts = <<>> THEN 0 ELSE Len(Head(pkts).payload) + SumPayloads(Tail(pkts))

\* C2: completeness gate.  Handling a fragment of list L invokes callbacks only
\* with exactly E bytes, E the byteLength of the first handler registered for L,
\* and the entry then held for L counts exactly E payload bytes over its
\* fragments; an entry left with fewer or more than E bytes means no callback ran,
\* and no error escapes.
C2_CompletenessGate ==
  [][ \A data \in WellFormedInputs :
        (lastOutcome'.kind # "none" /\ handleReceivedData(data)) =>
          LET index == parseReceivedPacketHeader(data).index
              listeners == listenersOf(handlers, index)
              entry == packetBuffer'[index]
          IN /\ lastCalls' # <<>> =>
                  /\ listeners # <<>>
                  /\ \A i \in 1..Len(lastCalls') :
                       Len(lastCalls'[i].data) = listeners[1].byteLength
                  /\ entry # NoEntry =>
                       /\ entry.totalDataBytes = listeners[1].byteLength
                       /\ SumPayloads(entry.packets) = listeners[1].byteLength
             /\ ( /\ listeners # <<>>
                  /\ entry # NoEntry
                  /\ entry.totalDataBytes # listeners[1].byteLength )
                => lastCalls' = <<>>
             /\ ~uncaught'
    ]_vars

\* C2 witness: the second fragment completed an entry and the callbacks ran
C2_Witness ==
  /\ lastOutcome.kind = "append"
  /\ lastCalls # <<>>
  /\ packetBuffer[lastOutcome.index].totalDataBytes = Len(lastCalls[1].data)

\* C3: gap handling.  A fragment that carries the counter of the entry of its
\* list but not the subIndex after the entry's last one deletes the entry and is
\* itself dropped, also when its subIndex is 0; a fragment with a subIndex other
\* than 0 that meets no entry leaves none; and a subIndex-0 fragment that meets
\* no entry starts an entry that holds this fragment alone (kept as long as
\* the list has a listener).
C3_GapHandling ==
  [][ \A data \in WellFormedInputs :
        (lastOutcome'.kind # "none" /\ handleReceivedData(data)) =>
          LET packet == parseReceivedPacket(data)
              index == packet.header.index
              entry == packetBuffer[index]
              after == packetBuffer'[index]
          IN /\ ( /\ entry # NoEntry
                  /\ entry.counter = packet.header.counter
                  /\ packet.header.subIndex
                       # entry.packets[Len(entry.packets)].header.subIndex + 1 )
                => (after = NoEntry /\ lastCalls' = <<>>)
             /\ (entry = NoEntry /\ packet.header.subIndex # 0)
                => (after = NoEntry /\ lastCalls' = <<>>)
             /\ (entry = NoEntry /\ packet.header.subIndex = 0)
                => /\ after # NoEntry <=> listenersOf(handlers, index) # <<>>
                   /\ after # NoEntry =>
                        /\ after.packets = <<packet>>
                        /\ after.counter = packet.header.counter
                        /\ after.totalDataBytes = Len(packet.payload)
    ]_vars

\* C3 witness: a fragment met an entry of its counter, was not the next one,
\* and the list holds no entry now
C3_Witness ==
  /\ lastOutcome.kind = "gap"
  /\ packetBuffer[lastOutcome.index] = NoEntry

\* C4 as stated: the counters of successive send() calls increase by one modulo
\* 65536, so the call after the one that used 65534 uses 65535.
C4_CounterModulo65536 ==
  \A i \in 1..(Len(usedCounters) - 1) :
    usedCounters[i + 1] = (usedCounters[i] + 1) % (UInt16Limit + 1)

\* C5: unregistered list.  While a list has no handler, handling a fragment of
\* that list invokes no callback and leaves no entry for the list.
C5_UnregisteredList ==
  [][ \A data \in WellFormedInputs :
        (lastOutcome'.kind # "none" /\ handleReceivedData(data)) =>
          LET index == parseReceivedPacketHeader(data).index
          IN listenersOf(handlers, index) = <<>>
             => (lastCalls' = <<>> /\ packetBuffer'[index] = NoEntry)
    ]_vars

\* C5 witness: a first fragment was taken in for a list without handler and
\* its entry is gone again
C5_Witness ==
  /\ lastOutcome.kind = "start"
  /\ listenersOf(handlers, lastOutcome.index) = <<>>
  /\ packetBuffer[lastOutcome.index] = NoEntry

\* C6 as stated: when convertToBuffer or elementIterator throws during send(),
\* the promise of send() is rejected and no packet is transmitted.
C6_SchemaErrorRejects ==
  thrown => (promise = "rejected" /\ transmitted = <<>>)

\* C7 as stated: a datagram shorter than the header is dropped, no entry is
\* changed and no error escapes the datagram handler.
C7_MalformedNonFatal ==
  [][ \A data \in RxInputs :
        (Len(data) < HeaderLength /\ handleReceivedData(data))
        => (packetBuffer' = packetBuffer /\ ~uncaught')
    ]_vars

\* C8: send failure.  Once a client.send() callback has reported an error, the
\* promise of the call is rejected, the loop over the packets has been left, and
\* for the rest of the call no further packet is transmitted and the promise
\* stays rejected.
C8_SendFailureAborts ==
  [][ /\ sendFailed' => (promise' = "rejected" /\ sendPc' = "idle")
      /\ (sendFailed /\ sendFailed')
         => (transmitted' = transmitted /\ promise' = "rejected")
    ]_vars

\* C8 witness: the send of the second packet failed, a third one was never sent
C8_Witness ==
  /\ sendFailed
  /\ Len(transmitted) = 2
  /\ Len(packets) = 3
  /\ sendsCompleted = 1
  /\ promise = "rejected"

\* C9: transmission order.  The datagrams handed to the socket are the packets
\* of the call in increasing subIndex order from 0, and packet i + 1 is handed
\* over only when the send of packet i has completed and the delay after it
\* has elapsed.
C9_TransmissionOrder ==
  /\ Len(transmitted) <= Len(packets)
  /\ \A i \in 1..Len(transmitted) :
       /\ transmitted[i] = packets[i].rawData
       /\ parseReceivedPacketHeader(transmitted[i]).subIndex = i - 1
  /\ Len(transmitted) <= sendsCompleted + 1
  /\ Len(transmitted) <= delaysElapsed + 1
  /\ delaysElapsed <= sendsCompleted

\* C9 witness: the third packet is with the socket after two sends and two delays
C9_Witness ==
  /\ sendPc = "sending"
  /\ Len(transmitted) = 3
  /\ sendsCompleted = 2
  /\ delaysElapsed = 2

\* C10: all packets of one send() call carry the counter taken once for the
\* call and the list ID of the call, and their subIndex values are 0, 1, ...,
\* k - 1 in output order.
C10_PacketNumbering ==
  \A i \in 1..Len(packets) :
    /\ packets[i].header.counter = usedCounters[Len(usedCounters)]
    /\ packets[i].header.index = sendArgs.listID
    /\ packets[i].header.subIndex = i - 1

\* C10 witness: a call produced three packets
C10_Witness == Len(packets) = 3 /\ sendPc = "binding"

\* the element boundaries of a data type, and whether every multiple of the
\* packet limit inside the message is one of them
ElementStarts(dataType) ==
  { dataType.elements[i].startIndex : i \in 1..Len(dataType.elements) }
BoundariesAligned(dataType) ==
  \A k \in 1..(dataType.byteLength \div MaxPayload) :
    k * MaxPayload < dataType.byteLength => k * MaxPayload \in ElementStarts(dataType)
CeilDiv(n, d) == (n + d - 1) \div d

\* C11: chunk count.  When the element boundaries of an N-byte message fall on
\* every multiple of 256 below N, send() produces ceil(N / 256) packets, every
\* packet before the last carries 256 payload bytes and the last carries
\* N - 256 * (number of packets before it); so 300 bytes give 256 and 44.
C11_ChunkCount ==
  (packets # <<>> /\ BoundariesAligned(sendArgs.dataType)) =>
    LET N == sendArgs.dataType.byteLength
        k == Len(packets)
    IN /\ k = CeilDiv(N, MaxPayload)
       /\ \A i \in 1..(k - 1) :
            /\ packets[i].header.payloadLength = MaxPayload
            /\ Len(packets[i].payload) = MaxPayload
       /\ packets[k].header.payloadLength = N - MaxPayload * (k - 1)
       /\ Len(packets[k].payload) = N - MaxPayload * (k - 1)
       /\ N = 300 => ( /\ k = 2
                       /\ packets[1].header.payloadLength = 256
                       /\ packets[2].header.payloadLength = 44 )

\* C11 witness: a 300-byte message of two elements went out as 256 + 44 bytes
C11_Witness ==
  /\ sendArgs.dataType.byteLength = 300
  /\ Len(sendArgs.dataType.elements) = 2
  /\ BoundariesAligned(sendArgs.dataType)
  /\ Len(packets) = 2
  /\ Len(packets[2].payload) = 44

\* C12: multi-handler delivery.  When handling a fragment leaves the entry of
\* its list with totalDataBytes equal to the byteLength of the first handler
\* registered for the list, every handler of the list, whatever its own
\* byteLength and also when the list is registered twice, is called exactly
\* once, in registration order, with the same assembled buffer, and the entry
\* is marked handled; when the total differs from the first handler's byteLength
\* nobody is called, whatever the other handlers expect.
C12_MultiHandlerDelivery ==
  [][ \A data \in WellFormedInputs :
        (lastOutcome'.kind # "none" /\ handleReceivedData(data)) =>
          LET index == parseReceivedPacketHeader(data).index
              positions == listenerPositions(handlers, index)
              entry == packetBuffer'[index]
          IN (positions # <<>> /\ entry # NoEntry) =>
               IF entry.totalDataBytes = handlers[positions[1]].byteLength
               THEN /\ Len(lastCalls') = Len(positions)
                    /\ \A i \in 1..Len(positions) :
                         /\ lastCalls'[i].handler = positions[i]
                         /\ lastCalls'[i].data = convertBufferEntriesToPacket(entry)
                    /\ entry.handled
               ELSE lastCalls' = <<>>
    ]_vars

\* C12 witness: two handlers of one list that expect different lengths were both
\* called, in registration order, with the same buffer
C12_Witness ==
  /\ Len(lastCalls) = 2
  /\ lastCalls[1].handler < lastCalls[2].handler
  /\ lastCalls[1].data = lastCalls[2].data
  /\ handlers[lastCalls[1].handler].byteLength # handlers[lastCalls[2].handler].byteLength
  /\ handlers[lastCalls[1].handler].byteLength = Len(lastCalls[1].data)
  /\ packetBuffer[lastOutcome.index].handled

\* C13 as stated: when a close() call resolves the receiver holds no socket, no
\* handler and no entry, and every close() call resolves: while its promise is
\* pending its callback is attached to a socket whose 'close' event is to come.
C13_CloseResolvesClean ==
  [][ \A k \in 1..Len(closePromises') :
        /\ ( /\ closePromises'[k] = "resolved"
             /\ (k > Len(closePromises) \/ closePromises[k] = "pending") )
           => (socket' = "none" /\ handlers' = <<>> /\ packetBuffer' = EmptyBuffer)
        /\ closePromises'[k] = "pending"
           => (socket' = "closing" /\ k \in closeListeners')
    ]_vars

\* C14 as stated: when binding fails, listen() rejects and the receiver holds no
\* socket, so that a later listen() binds again.
C14_BindFailureUnstarted ==
  [][ (listenPromise' = "rejected" /\ listenPromise # "rejected")
      => socket' = "none"
    ]_vars

\* C15: already subscribed.  listen() called while the receiver holds a socket
\* (listening, binding, closing or left over from a failed bind) rejects at once
\* and changes neither the socket nor its listeners, the handlers, the packet
\* buffer or any pending promise.
C15_AlreadySubscribed ==
  [][ \A bindThrows \in BOOLEAN :
        (socket # "none" /\ listen(bindThrows)) =>
          /\ lastListen' = "rejected"
          /\ UNCHANGED <<socket, closeListeners, closePromises, handlersAtClose, listenPromise,
                         handlers, packetBuffer>>
    ]_vars

\* C15 witness: listen() was rejected while the bind of an earlier call is pending
C15_Witness ==
  /\ lastListen = "rejected"
  /\ socket = "binding"
  /\ listenPromise = "pending"

\* the counter or subIndex assignment of the calls in flight is corrupted: two
\* messages share a counter, or a message's packets differ in counter or list ID
\* or are not numbered 0, 1, ..., k - 1
Corrupted(calls) ==
  \/ \E i, j \in 1..Len(calls) : i # j /\ calls[i].counterNo = calls[j].counterNo
  \/ \E i \in 1..Len(calls) : \E k \in 1..Len(calls[i].packets) :
       \/ calls[i].packets[k].counter # calls[i].counterNo
       \/ calls[i].packets[k].index # calls[i].listID
       \/ calls[i].packets[k].subIndex # k - 1

\* C16 (as amended): send() calls in flight at the same time on one Sender never
\* share a counter, and the packets of each carry the counter and list ID of
\* their call and the subIndex values 0, 1, ..., k - 1, however the callbacks of
\* the calls interleave.
C16_ConcurrentSendsKeepNumbering == ~Corrupted(inFlight)

\* C16 witness: two calls are in flight, the first between its second and its
\* third packet, the second about to send its second packet
C16_Witness ==
  /\ Len(inFlight) = 2
  /\ Len(inFlight[1].packets) = 3
  /\ inFlight[1].sent = 2
  /\ inFlight[2].pc = "delay"
  /\ inFlight[2].sent = 1
  /\ Len(inFlight[2].packets) = 2

\* C16 as stated: with two send() calls in flight the assignment is corrupted,
\* or some next step of the interleaving corrupts it.
C16_ConcurrentSendsCorrupt ==
  Len(inFlight) >= 2 =>
    (Corrupted(inFlight) \/ ENABLED (NextConc /\ Corrupted(inFlight')))

\* C17 as stated: once removeHandler(h) has returned the callback of h is not
\* invoked again, also when removeHandler(h) is called from the callback of
\* another handler during a delivery, and the other handlers stay registered
\* in their order.
C17_RemovedHandlerNotCalled ==
  [][ removedBy'.by # 0 =>
        /\ \A k \in 1..Len(lastCalls') :
             k > removedBy'.by => lastCalls'[k].handler # removedBy'.handler
        /\ handlers' = [ i \in 1..(Len(handlers) - 1) |->
                           IF i < removedBy'.handler THEN handlers[i]
                           ELSE handlers[i + 1] ]
    ]_vars

\* what rule 1 makes of fragment packet on the list index: a new entry holding
\* the fragment alone, which the completeness check that follows marks handled
\* when it is complete, or deletes when the list has no handler
IsFreshEntry(entry, packet) ==
  /\ entry # NoEntry
  /\ entry.counter = packet.header.counter
  /\ entry.packets = <<packet>>
  /\ entry.totalDataBytes = Len(packet.payload)

\* C18 as stated: a handled entry is inert.  A later fragment for its list does
\* not append to it, change its totalDataBytes or make callbacks run from it
\* again; the entry stays as it is, is dropped, or a newly created entry takes
\* its place.
C18_HandledInert ==
  [][ \A data \in WellFormedInputs :
        (lastOutcome'.kind # "none" /\ handleReceivedData(data)) =>
          LET packet == parseReceivedPacket(data)
              index == packet.header.index
              entry == packetBuffer[index]
              after == packetBuffer'[index]
          IN (entry # NoEntry /\ entry.handled) =>
               \/ after = entry /\ lastCalls' = <<>>
               \/ after = NoEntry /\ lastCalls' = <<>>
               \/ packet.header.subIndex = 0 /\ IsFreshEntry(after, packet)
    ]_vars

\* C19 as stated: rule 1.  A fragment f for a list that has no entry, or whose
\* entry is handled whatever its counter: with subIndex 0 a new entry with f's
\* counter, fragments [f] and f's payload length takes the place of what was
\* there (and is deleted at once only when the list has no handler); with
\* another subIndex f is discarded, nothing changes and no callback runs.
C19_RuleOne ==
  [][ \A data \in WellFormedInputs :
        (lastOutcome'.kind # "none" /\ handleReceivedData(data)) =>
          LET packet == parseReceivedPacket(data)
              index == packet.header.index
              entry == packetBuffer[index]
              after == packetBuffer'[index]
          IN (entry = NoEntry \/ entry.handled) =>
               IF packet.header.subIndex = 0
               THEN \/ IsFreshEntry(after, packet)
                    \/ after = NoEntry /\ listenersOf(handlers, index) = <<>>
               ELSE packetBuffer' = packetBuffer /\ lastCalls' = <<>>
    ]_vars

\* C20 as stated: duplicate tolerance.  While the datagrams of one logical
\* message arrive, each any number of times, and no fragment with another
\* counter comes in between, the handlers are called at most once for it.
C20_DuplicateTolerance == run.deliveries <= 1

\* C21: rule 3.  A fragment f that meets an entry of its list that is not handled
\* and has another counter: the old entry is deleted; with subIndex 0 a new entry
\* holding f alone, with f's counter, takes its place (and is deleted at once only
\* when the list has no handler); with another subIndex f is dropped and the list
\* has no entry.  A buffer handed to a callback by this step holds bytes of one
\* counter only: the payload of f, or the payloads of the old entry.
C21_RuleThree ==
  [][ \A data \in WellFormedInputs :
        (lastOutcome'.kind # "none" /\ handleReceivedData(data)) =>
          LET packet == parseReceivedPacket(data)
              index == packet.header.index
              entry == packetBuffer[index]
              after == packetBuffer'[index]
          IN ( /\ entry # NoEntry
               /\ ~entry.handled
               /\ entry.counter # packet.header.counter )
             => IF packet.header.subIndex = 0
                THEN /\ \/ IsFreshEntry(after, packet)
                        \/ after = NoEntry /\ listenersOf(handlers, index) = <<>>
                     /\ \A i \in 1..Len(lastCalls') :
                          lastCalls'[i].data = packet.payload
                ELSE /\ after = NoEntry
                     /\ \A i \in 1..Len(lastCalls') :
                          lastCalls'[i].data = convertBufferEntriesToPacket(entry)
    ]_vars

\* C21 witness: a fragment with a subIndex other than 0 met an unhandled entry of
\* another counter on a list that has a handler; the entry is gone
C21_Witness ==
  /\ lastOutcome.kind = "recheck"
  /\ listenersOf(handlers, lastOutcome.index) # <<>>
  /\ packetBuffer[lastOutcome.index] = NoEntry


\* checkReceivedPacket: the entry holds more bytes than the first listener of
\* its list expects, whether it has been handled before or not
IsOversize(entry, hs, index) ==
  /\ entry # NoEntry
  /\ listenersOf(hs, index) # <<>>
  /\ entry.totalDataBytes > listenersOf(hs, index)[1].byteLength

\* C22 as stated: size mismatch.  An entry with more bytes than the first handler
\* of its list expects is never delivered and no fragment deletes or alters it,
\* except a subIndex-0 fragment with a new counter, which replaces it.
C22_OversizeKeptUntilSuperseded ==
  [][ \A data \in WellFormedInputs :
        (lastOutcome'.kind # "none" /\ handleReceivedData(data)) =>
          LET packet == parseReceivedPacket(data)
              index == packet.header.index
              entry == packetBuffer[index]
              after == packetBuffer'[index]
          IN IsOversize(entry, handlers, index) =>
               \/ after = entry /\ lastCalls' = <<>>
               \/ /\ packet.header.subIndex = 0
                  /\ packet.header.counter # entry.counter
                  /\ IsFreshEntry(after, packet)
    ]_vars

\* C22 (as amended): an entry with more bytes than the first handler of its list
\* expects is never delivered while the handlers stay as they are, and the
\* completeness check leaves it in place.  The next fragment of its list treats
\* it as any other entry: the fragment after its last one is appended, any
\* other fragment of its counter deletes it, a subIndex-0 fragment of another
\* counter replaces it by a new entry holding that fragment alone, and a
\* fragment of another counter with a subIndex other than 0 deletes it unless
\* it is handled (it grew too long after its delivery), in which case it stays
\* as it is.
C22_OversizeNeverDelivered ==
  [][ \A data \in WellFormedInputs :
        (lastOutcome'.kind # "none" /\ handleReceivedData(data)) =>
          LET packet == parseReceivedPacket(data)
              index == packet.header.index
              entry == packetBuffer[index]
              after == packetBuffer'[index]
              last == entry.packets[Len(entry.packets)].header.subIndex
          IN IsOversize(entry, handlers, index) =>
               IF packet.header.counter = entry.counter
               THEN /\ lastCalls' = <<>>
                    /\ IF packet.header.subIndex = last + 1
                       THEN /\ after # NoEntry
                            /\ after.packets = Append(entry.packets, packet)
                            /\ after.totalDataBytes
                                 = entry.totalDataBytes + Len(packet.payload)
                            /\ IsOversize(after, handlers', index)
                       ELSE after = NoEntry
               ELSE IF packet.header.subIndex = 0
                    THEN /\ IsFreshEntry(after, packet)
                         /\ \A i \in 1..Len(lastCalls') :
                              lastCalls'[i].data = packet.payload
                    ELSE /\ after = IF entry.handled THEN entry ELSE NoEntry
                         /\ lastCalls' = <<>>
    ]_vars

\* C22 witness: a fragment was appended to an entry that already held too many
\* bytes, and the entry is still waiting
C22_Witness ==
  /\ lastOutcome.kind = "append"
  /\ lastCalls = <<>>
  /\ IsOversize(packetBuffer[lastOutcome.index], handlers, lastOutcome.index)
  /\ ~packetBuffer[lastOutcome.index].handled
  /\ LET entry == packetBuffer[lastOutcome.index]
     IN entry.totalDataBytes - Len(entry.packets[Len(entry.packets)].payload)
          > listenersOf(handlers, lastOutcome.index)[1].byteLength


\* C23: entry invariant.  Every entry of the packet buffer holds at least one
\* fragment, all its fragments carry the entry's counter, their subIndex values
\* are 0,1,2,... in stored order, and totalDataBytes is the sum of the payload
\* lengths of its fragments.
C23_EntryInvariant ==
  \A index \in DOMAIN packetBuffer :
    LET entry == packetBuffer[index]
    IN entry # NoEntry =>
         /\ Len(entry.packets) >= 1
         /\ \A i \in 1..Len(entry.packets) :
              /\ entry.packets[i].header.counter = entry.counter
              /\ entry.packets[i].header.subIndex = i - 1
         /\ entry.totalDataBytes = SumPayloads(entry.packets)

\* C23 witness: an entry of three fragments
C23_Witness ==
  \E index \in DOMAIN packetBuffer :
    /\ packetBuffer[index] # NoEntry
    /\ Len(packetBuffer[index].packets) >= 3


\* C24 as stated: out-of-order delivery is loss.  When the fragments of a
\* message of several fragments, whose length a handler of its list expects,
\* have all arrived, each once, in another order than increasing subIndex, no
\* callback has run for the message.
C24_OutOfOrderIsLoss ==
  ( /\ AllArrived(arrival)
    /\ arrival.order # Increasing(Len(arrival.sizes))
    /\ \E i \in 1..Len(handlers) : handlers[i].byteLength = MessageBytes )
  => arrival.calls = 0

\* C24 (as amended): the same, for a message whose length is the byteLength of
\* the first handler registered for its list.
C24_OutOfOrderIsLossFirstHandler ==
  ( /\ AllArrived(arrival)
    /\ arrival.order # Increasing(Len(arrival.sizes))
    /\ listenersOf(handlers, 50) # <<>>
    /\ listenersOf(handlers, 50)[1].byteLength = MessageBytes )
  => arrival.calls = 0

\* C24 witness: after a first message, the three fragments of a second one have
\* arrived with the last one second, the first handler expecting its length
C24_Witness ==
  /\ arrival.counter = 1
  /\ arrival.order = <<0, 2, 1>>
  /\ listenersOf(handlers, 50) # <<>>
  /\ listenersOf(handlers, 50)[1].byteLength = MessageBytes
  /\ arrival.calls = 0


\* the fragments of an entry carry one counter and the subIndex values 0,1,...
OneMessageInOrder(buffer) ==
  \A i \in 1..Len(buffer.packets) :
    /\ buffer.packets[i].header.counter = buffer.counter
    /\ buffer.packets[i].header.subIndex = i - 1

\* C25: delivery integrity.  Whenever handling a datagram invokes callbacks,
\* every callback gets the same buffer; it is as long as the first handler of
\* the list expects and it is the concatenation, in stored order, of the
\* payloads of the fragments of one entry of the list (the entry the datagram
\* met or the entry it leaves), which all carry one counter and the subIndex
\* values 0..k.
C25_DeliveryIntegrity ==
  [][ \A data \in WellFormedInputs :
        (lastOutcome'.kind # "none" /\ handleReceivedData(data)) =>
          LET index == parseReceivedPacketHeader(data).index
              listeners == listenersOf(handlers, index)
          IN lastCalls' # <<>> =>
               /\ listeners # <<>>
               /\ \E buffer \in {packetBuffer[index], packetBuffer'[index]} :
                    /\ buffer # NoEntry
                    /\ OneMessageInOrder(buffer)
                    /\ \A i \in 1..Len(lastCalls') :
                         /\ lastCalls'[i].data = ConcatPayloads(buffer.packets)
                         /\ Len(lastCalls'[i].data) = listeners[1].byteLength
    ]_vars

\* C25 witness: three fragments have been handed over as one buffer
C25_Witness ==
  /\ lastCalls # <<>>
  /\ packetBuffer[lastOutcome.index] # NoEntry
  /\ Len(packetBuffer[lastOutcome.index].packets) = 3
  /\ lastCalls[1].data = ConcatPayloads(packetBuffer[lastOutcome.index].packets)


\* C26: list ID isolation.  Handling a datagram of list L, whatever becomes of
\* it, leaves the entries of all other lists and the handler list as they
\* were, and the callbacks it invokes are those of handlers registered for L.
C26_ListIsolation ==
  [][ \A data \in WellFormedInputs :
        (lastOutcome'.kind # "none" /\ handleReceivedData(data)) =>
          LET index == parseReceivedPacketHeader(data).index
          IN /\ \A other \in DOMAIN packetBuffer \ {index} :
                  packetBuffer'[other] = packetBuffer[other]
             /\ handlers' = handlers
             /\ \A i \in 1..Len(lastCalls') :
                  /\ lastCalls'[i].handler \in 1..Len(handlers)
                  /\ handlers[lastCalls'[i].handler].listID = index
    ]_vars

\* C26 witness: a datagram of one list has been delivered to its handler while
\* another list, which has a handler too, has an entry waiting
C26_Witness ==
  /\ lastCalls # <<>>
  /\ \E other \in DOMAIN packetBuffer \ {lastOutcome.index} :
       /\ packetBuffer[other] # NoEntry
       /\ ~packetBuffer[other].handled
       /\ listenersOf(handlers, other) # <<>>


\* C27: packet size bound.  Every packet of a message has at most 256 payload
\* bytes, unless it carries exactly one field and that field is longer than 256
\* bytes; and every field longer than 256 bytes travels whole in a packet that
\* carries nothing else.
C27_PacketSizeBound ==
  packets # <<>> =>
    LET elements == sendArgs.dataType.elements
        carries(p, e) ==
          /\ p.header.variableCount = 1
          /\ p.header.payloadLength = e.byteLength
          /\ p.payload = Slice(rawData, e.startIndex, e.startIndex + e.byteLength)
    IN /\ \A j \in 1..Len(packets) :
            \/ /\ packets[j].header.payloadLength <= MaxPayload
               /\ Len(packets[j].payload) <= MaxPayload
            \/ \E i \in 1..Len(elements) :
                 /\ elements[i].byteLength > MaxPayload
                 /\ carries(packets[j], elements[i])
       /\ \A i \in 1..Len(elements) :
            elements[i].byteLength > MaxPayload
            => \E j \in 1..Len(packets) : carries(packets[j], elements[i])

\* C27 witness: a message of a small field, a 300-byte field and a small field
\* went out with the 300-byte field alone in the second of three packets
C27_Witness ==
  /\ Len(sendArgs.dataType.elements) = 3
  /\ Len(packets) = 3
  /\ packets[2].header.variableCount = 1
  /\ packets[2].header.payloadLength = 300
  /\ Len(packets[2].payload) = 300

\* C28 as stated: no empty packet.  Every packet of a message with at least one
\* field carries at least one field and a non-empty payload.
C28_NoEmptyPacket ==
  (packets # <<>> /\ sendArgs.dataType.elements # <<>>) =>
    \A j \in 1..Len(packets) :
      /\ packets[j].header.variableCount >= 1
      /\ packets[j].header.payloadLength >= 1
      /\ packets[j].payload # <<>>


\* C29: header codec round trip.  For a header whose fields fit their widths,
\* reading the 20 bytes createPacketHeader wrote gives back identity, type,
\* index, subIndex, variableCount, packetLength, counter, flags and checksum,
\* and a payloadLength of packetLength - 20.
C29_HeaderRoundTrip ==
  codec.stage = "decoded" =>
    /\ Len(codec.bytes) = HeaderLength
    /\ codec.decoded.identity = codec.header.identity
    /\ codec.decoded.type = codec.header.type
    /\ codec.decoded.index = codec.header.index
    /\ codec.decoded.subIndex = codec.header.subIndex
    /\ codec.decoded.variableCount = codec.header.variableCount
    /\ codec.decoded.packetLength = codec.header.packetLength
    /\ codec.decoded.counter = codec.header.counter
    /\ codec.decoded.flags = codec.header.flags
    /\ codec.decoded.checksum = codec.header.checksum
    /\ codec.decoded.payloadLength = codec.header.packetLength - 20

\* C29 witness: a header whose fields all differ has been written and read back
C29_Witness ==
  /\ codec.stage = "decoded"
  /\ codec.header.type = 16909060
  /\ codec.header.index = 258
  /\ codec.header.subIndex = 65535
  /\ codec.header.variableCount = 0
  /\ codec.header.counter = 258
  /\ codec.header.flags = 7
  /\ codec.header.checksum = 255
  /\ codec.decoded.counter = 258

\* the unsigned little-endian number in the size bytes of bytes from offset on
\* (0-based); -1 when these bytes reach beyond the end
RECURSIVE LittleEndianAt(_, _, _)
LittleEndianAt(bytes, offset, size) ==
  IF offset + size > Len(bytes) THEN -1
  ELSE IF size = 0 THEN 0
  ELSE bytes[offset + 1] + 256 * LittleEndianAt(bytes, offset + 1, size - 1)

\* fields is found in bytes at the offsets of the header table, flags and
\* checksum at the offsets given
LaidOutAt(fields, bytes, flagsAt, checksumAt) ==
  /\ fields.identity = Slice(bytes, 0, 4)
  /\ fields.type = LittleEndianAt(bytes, 4, 4)
  /\ fields.index = LittleEndianAt(bytes, 8, 2)
  /\ fields.subIndex = LittleEndianAt(bytes, 10, 2)
  /\ fields.variableCount = LittleEndianAt(bytes, 12, 2)
  /\ fields.packetLength = LittleEndianAt(bytes, 14, 2)
  /\ fields.counter = LittleEndianAt(bytes, 16, 2)
  /\ fields.flags = LittleEndianAt(bytes, flagsAt, 1)
  /\ fields.checksum = LittleEndianAt(bytes, checksumAt, 1)

\* C30 as stated: header layout.  The encoder writes and the decoder reads each
\* field little-endian at identity 0, type 4, index 8, subIndex 10,
\* variableCount 12, packetLength 14, counter 16, flags 19 and checksum 20, in
\* a header of 20 bytes.
C30_HeaderLayoutAsTabled ==
  /\ codec.stage \in {"encoded", "decoded"} =>
       /\ Len(codec.bytes) = HeaderLength
       /\ LaidOutAt(codec.header, codec.bytes, 19, 20)
  /\ codec.stage = "decoded" => LaidOutAt(codec.decoded, codec.bytes, 19, 20)

\* C30 (as amended): the same with flags at offset 18 and checksum at offset 19,
\* the last two bytes of the 20.
C30_HeaderLayout ==
  /\ codec.stage \in {"encoded", "decoded"} =>
       /\ Len(codec.bytes) = HeaderLength
       /\ LaidOutAt(codec.header, codec.bytes, 18, 19)
  /\ codec.stage = "decoded" => LaidOutAt(codec.decoded, codec.bytes, 18, 19)

\* C30 witness: a header with flags 7 and checksum 255 has been written and
\* read; byte 18 is 7 and byte 19 is 255
C30_Witness ==
  /\ codec.stage = "decoded"
  /\ codec.header.flags = 7
  /\ codec.header.checksum = 255
  /\ codec.header.packetLength = 258
  /\ codec.bytes[19] = 7
  /\ codec.bytes[20] = 255
  /\ codec.decoded.flags = 7


\* C31 as stated: send completion.  The promise of send() is resolved only when
\* all packets of the message have been transmitted and the socket of the call
\* has been closed, and whenever the promise is settled, resolved or rejected,
\* that socket has been closed.
C31_SendCompletion ==
  /\ promise = "resolved" =>
       /\ Len(transmitted) = Len(packets)
       /\ client = "closed"
  /\ promise \in {"resolved", "rejected"} => client = "closed"


\* C32 as stated: close() removes only what existed when it was called.  When
\* the promise of a close() call that waited for the socket is resolved, the
\* handlers registered after the call was made are still registered.
C32_CloseKeepsLaterHandlers ==
  [][ ( \E k \in 1..Len(closePromises) :
          closePromises[k] = "pending" /\ closePromises'[k] = "resolved" )
      => handlers' = SubSeq(handlers, handlersAtClose + 1, Len(handlers))
    ]_vars


RECURSIVE SumVariableCounts(_)
SumVariableCounts(pkts) ==
  IF pkts = <<>> THEN 0
  ELSE Head(pkts).header.variableCount + SumVariableCounts(Tail(pkts))

\* the fields of the message whose bytes lie in packet j: those that start
\* within the bytes of the message the payload of packet j covers
FieldsPlacedIn(pkts, elements, j) ==
  LET from == SumPayloads(SubSeq(pkts, 1, j - 1))
  IN { i \in 1..Len(elements) :
         /\ elements[i].startIndex >= from
         /\ elements[i].startIndex < from + Len(pkts[j].payload) }

\* C33: packet length bookkeeping.  For every packet of a message,
\* header.payloadLength is the length of its payload, header.packetLength is
\* 20 + payloadLength and is the length of the datagram (also as written into
\* the datagram's header), variableCount is the number of fields placed in the
\* packet, and the variableCount values of the message add up to its number
\* of fields.
C33_LengthBookkeeping ==
  packets # <<>> =>
    LET elements == sendArgs.dataType.elements
    IN /\ \A j \in 1..Len(packets) :
            /\ packets[j].header.payloadLength = Len(packets[j].payload)
            /\ packets[j].header.packetLength
                 = HeaderLength + packets[j].header.payloadLength
            /\ Len(packets[j].rawData) = packets[j].header.packetLength
            /\ parseReceivedPacketHeader(packets[j].rawData).packetLength
                 = Len(packets[j].rawData)
            /\ packets[j].header.variableCount
                 = Cardinality(FieldsPlacedIn(packets, elements, j))
       /\ \A j \in 1..Len(transmitted) :
            Len(transmitted[j]) = packets[j].header.packetLength
       /\ SumVariableCounts(packets) = Len(elements)

\* C33 witness: three fields went out as a packet of two fields and a packet of
\* one field, both transmitted
C33_Witness ==
  /\ Len(sendArgs.dataType.elements) = 3
  /\ Len(packets) = 2
  /\ packets[1].header.variableCount = 2
  /\ packets[2].header.variableCount = 1
  /\ Len(transmitted) = 2

====
